---- MODULE Spec2Model ----
(***************************************************************************)
(* A model of src/main.py: the Bonbast + crypto CSV -> rates_v2_latest     *)
(* generator.  JSON values are modelled as follows.                        *)
(*   - a number or string leaf is a record [tag, n, d]: tag "int" or       *)
(*     "float" for the rational n/d (d > 0, reduced), tag "str" for a      *)
(*     non-numeric, non-empty string;                                      *)
(*   - a rate record is a function from its field names to values, an      *)
(*     absent field being absent from the DOMAIN;                          *)
(*   - a display name or title is a sequence of tokens (words separated by *)
(*     blanks); the glyphs 1/2 and 1/4 are the tokens "HALFGLYPH" and      *)
(*     "QUARTERGLYPH", and "FA_..." tokens are native-script words.        *)
(*   - a Python dict given as an input (scrape results) is a sequence of   *)
(*     pairs with distinct keys, in insertion order.                       *)
(***************************************************************************)
EXTENDS Integers, Sequences, FiniteSets, TLC

VARIABLES
    pc,          \* position of main(): see the actions below
    useSelenium, \* USE_SELENIUM_FALLBACK
    artifact,    \* content of the file rates_v2_latest (TEMPLATE_FILE = OUTPUT_FILE)
    template,    \* the object load_template read (kept for reference)
    payload,     \* Payload(fetchedAtMs, source, rates)
    bonbast,     \* result of scrape_bonbast()
    crypto,      \* result of fetch_crypto_csv() (or {} when it raised)
    verdict,     \* result of validate_payload
    exitCode,    \* return value of main(), -1 while running
    written,     \* number of times OUTPUT_FILE was opened for writing
    calls,       \* scrape_bonbast: the transports invoked so far, in order
    httpRes,     \* scrape_bonbast: outcome of scrape_bonbast_fast
    selRes,      \* scrape_bonbast: outcome of scrape_bonbast_selenium
    rawName,     \* parse_bonbast_html: the name cell of the row at hand
    outName,     \* parse_bonbast_html: the name the row is stored under
    resKey       \* update_from_bonbast: the key the name resolved to

vars == <<pc, useSelenium, artifact, template, payload, bonbast, crypto, verdict,
          exitCode, written, calls, httpRes, selRes, rawName, outName, resKey>>

-----------------------------------------------------------------------------
(* Numbers *)

RECURSIVE GCD(_, _)
GCD(a, b) == IF b = 0 THEN a ELSE GCD(b, a % b)

Rat(tag, n, d) ==
    LET g == GCD(n, d) IN
    IF n = 0 THEN [tag |-> tag, n |-> 0, d |-> 1]
    ELSE [tag |-> tag, n |-> n \div g, d |-> d \div g]

IntV(n) == [tag |-> "int", n |-> n, d |-> 1]
FloatV(n) == [tag |-> "float", n |-> n, d |-> 1]
StrV == [tag |-> "str", n |-> 0, d |-> 1]

\* isinstance(v, (int, float))
IsNum(v) == v.tag \in {"int", "float"}
\* isinstance(v, int)
IsInt(v) == v.tag = "int"
\* Python truthiness of a leaf: a number is falsy when zero, the strings
\* modelled are non-empty
Truthy(v) == IF IsNum(v) THEN v.n # 0 ELSE TRUE
\* float(v) of a number
ToFloat(v) == [tag |-> "float", n |-> v.n, d |-> v.d]
\* a * b and a / b on floats
Mul(a, b) == Rat("float", a.n * b.n, a.d * b.d)
Div(a, b) == Rat("float", a.n * b.d, a.d * b.n)
\* Python's ==  on numbers (1 == 1.0)
NumEq(a, b) == IsNum(a) /\ IsNum(b) /\ a.n = b.n /\ a.d = b.d

-----------------------------------------------------------------------------
(* Names: sequences of tokens *)

\* The marker substrings (lines 179-187) each token contains; the test
\* `"Gera" in name` is true of a name with the word Gerami, and so on.
Markers(tok) ==
    CASE tok = "Emami" -> {"Emami"}
      [] tok = "Azadi" -> {"Azadi"}
      [] tok = "Gerami" -> {"Gera"}
      [] tok = "Half" -> {"Half"}
      [] tok = "Quarter" -> {"Quarter"}
      [] tok = "Gram" -> {"Gram"}
      [] tok = "Coin" -> {"Coin"}
      [] tok = "HALFGLYPH" -> {"HALFGLYPH"}
      [] tok = "QUARTERGLYPH" -> {"QUARTERGLYPH"}
      [] OTHER -> {}

\* `marker in name`
Contains(name, marker) == \E i \in 1..Len(name) : marker \in Markers(name[i])

\* What norm_key leaves of one token: lowercased, the glyphs spelled out,
\* every character outside [a-z0-9] turned into a blank.
NormWords(tok) ==
    CASE tok = "US" -> <<"us">>
      [] tok = "Dollar" -> <<"dollar">>
      [] tok = "dollar" -> <<"dollar">>
      [] tok = "Euro" -> <<"euro">>
      [] tok = "EURO" -> <<"euro">>
      [] tok = "Bitcoin" -> <<"bitcoin">>
      [] tok = "bitcoin" -> <<"bitcoin">>
      [] tok = "Ether" -> <<"ether">>
      [] tok = "Emami" -> <<"emami">>
      [] tok = "Azadi" -> <<"azadi">>
      [] tok = "Gerami" -> <<"gerami">>
      [] tok = "Half" -> <<"half">>
      [] tok = "Quarter" -> <<"quarter">>
      [] tok = "Gram" -> <<"gram">>
      [] tok = "Coin" -> <<"coin">>
      [] tok = "Gold" -> <<"gold">>
      [] tok = "Ounce" -> <<"ounce">>
      [] tok = "Mithqal" -> <<"mithqal">>
      [] tok = "18k" -> <<"18k">>
      [] tok = "HALFGLYPH" -> <<"half">>
      [] tok = "QUARTERGLYPH" -> <<"quarter">>
      [] tok = "-" -> <<>>
      [] tok = "FA_DOLLAR" -> <<>>
      [] tok = "FA_EURO" -> <<>>
      [] OTHER -> <<tok>>

RECURSIVE norm_key(_)
norm_key(s) == IF s = <<>> THEN <<>> ELSE NormWords(Head(s)) \o norm_key(Tail(s))

EmamiName == <<"Emami">>
AzadiName == <<"Azadi">>
HalfAzadiName == <<"HALFGLYPH", "Azadi">>
QuarterAzadiName == <<"QUARTERGLYPH", "Azadi">>
GeramiName == <<"Gerami">>
GoldGramName == <<"Gold", "Gram", "18k">>
GoldMithqalName == <<"Gold", "Mithqal">>
GoldOunceName == <<"Gold", "Ounce">>

\* dict.get(name) of the two static tables; "" stands for None
COIN_NAME_TO_KEY(name) ==
    CASE name = EmamiName -> "coin_emami"
      [] name = AzadiName -> "coin_azadi"
      [] name = HalfAzadiName -> "coin_half_azadi"
      [] name = QuarterAzadiName -> "coin_quarter_azadi"
      [] name = GeramiName -> "coin_gerami"
      [] OTHER -> ""

TOP_NAME_TO_KEY(name) ==
    CASE name = GoldGramName -> "gold_gram_18k"
      [] name = GoldMithqalName -> "gold_mithqal"
      [] name = GoldOunceName -> "gold_ounce"
      [] OTHER -> ""

-----------------------------------------------------------------------------
(* Python dicts given as sequences of <<key, value>> pairs *)

DictKeys(d) == {d[i][1] : i \in 1..Len(d)}
DictHas(d, k) == k \in DictKeys(d)
DictGet(d, k) == d[CHOOSE i \in 1..Len(d) : d[i][1] = k][2]
\* d[k] = v: an existing key keeps its place
DictSet(d, k, v) ==
    IF DictHas(d, k)
    THEN [i \in 1..Len(d) |-> IF d[i][1] = k THEN <<k, v>> ELSE d[i]]
    ELSE Append(d, <<k, v>>)

-----------------------------------------------------------------------------
(* parse_bonbast_html *)

\* mutant: the base alias does not exclude the glyphs
NormalizeCoinNameNoGlyphs(name) ==
    IF Contains(name, "Emami") THEN EmamiName
    ELSE IF Contains(name, "Azadi") /\ ~Contains(name, "Gera") THEN AzadiName
    ELSE IF Contains(name, "Half") THEN HalfAzadiName
    ELSE IF Contains(name, "Quarter") THEN QuarterAzadiName
    ELSE IF Contains(name, "Gram") /\ Contains(name, "Coin") THEN GeramiName
    ELSE name

\* The coin naming of lines 179-188
NormalizeCoinName(name) ==
    IF Contains(name, "Emami") THEN EmamiName
    ELSE IF Contains(name, "Azadi") /\ ~Contains(name, "Gera")
            /\ ~Contains(name, "HALFGLYPH") /\ ~Contains(name, "QUARTERGLYPH")
         THEN AzadiName
    ELSE IF Contains(name, "Half") THEN HalfAzadiName
    ELSE IF Contains(name, "Quarter") THEN QuarterAzadiName
    ELSE IF Contains(name, "Gram") /\ Contains(name, "Coin") THEN GeramiName
    ELSE name

\* A page is [ounce: the price in the element with id "ounce" (-1: no such
\* element or no digits in it), rows: the <tr> rows of its tables]; a row is
\* [ncols, name, price]: its number of <td> cells, the text of its name cell
\* and to_int_price of its price cell (-1 for None).
ParseTop(page) ==
    IF page.ounce >= 0 THEN <<<<GoldOunceName, page.ounce>>>> ELSE <<>>

RECURSIVE ParseRows(_, _)
ParseRows(rows, out) ==
    IF rows = <<>> THEN out
    ELSE LET row == Head(rows)
             used == row.ncols \in {3, 4}
         IN IF ~used \/ row.name = <<>> \/ row.price < 0
            THEN ParseRows(Tail(rows), out)
            ELSE ParseRows(Tail(rows),
                           DictSet(out, NormalizeCoinName(row.name), row.price))

parse_bonbast_html(page) == ParseRows(page.rows, ParseTop(page))

-----------------------------------------------------------------------------
(* scrape_bonbast *)

ScrapeMin == 15

Thrown == [ok |-> FALSE, page |-> [ounce |-> -1, rows |-> <<>>]]
Fetched(page) == [ok |-> TRUE, page |-> page]

\* scrape_bonbast_fast / scrape_bonbast_selenium once the transport returned
scrape_bonbast_fast(res) == parse_bonbast_html(res.page)
scrape_bonbast_selenium(res) == parse_bonbast_html(res.page)

\* mutant: the threshold is exclusive
HttpSufficesStrict(res) == res.ok /\ Len(scrape_bonbast_fast(res)) > ScrapeMin

\* lines 245-252: the HTTP result is returned as it is
HttpSuffices(res) == res.ok /\ Len(scrape_bonbast_fast(res)) >= ScrapeMin

\* lines 254-262, given the outcome of the Selenium transport
FallbackResult(use, res) ==
    IF ~use THEN <<>>
    ELSE IF res.ok THEN scrape_bonbast_selenium(res) ELSE <<>>

-----------------------------------------------------------------------------
(* The record set *)

CoreKeys == <<"usd", "eur", "btc", "gold_ounce", "coin_azadi", "coin_half_azadi">>
PadKeys == <<"pad01", "pad02", "pad03", "pad04", "pad05", "pad06", "pad07", "pad08", "pad09", "pad10", "pad11", "pad12", "pad13", "pad14", "pad15", "pad16", "pad17", "pad18", "pad19", "pad20", "pad21", "pad22", "pad23", "pad24", "pad25", "pad26", "pad27", "pad28", "pad29", "pad30", "pad31", "pad32", "pad33", "pad34", "pad35", "pad36", "pad37", "pad38", "pad39", "pad40", "pad41", "pad42", "pad43", "pad44", "pad45", "pad46", "pad47", "pad48", "pad49", "pad50", "pad51", "pad52", "pad53", "pad54", "pad55", "pad56", "pad57", "pad58", "pad59", "pad60", "pad61", "pad62", "pad63", "pad64", "pad65", "pad66", "pad67", "pad68", "pad69", "pad70", "pad71", "pad72", "pad73", "pad74", "pad75", "pad76", "pad77", "pad78", "pad79", "pad80", "pad81", "pad82", "pad83", "pad84", "pad85", "pad86", "pad87", "pad88", "pad89", "pad90", "pad91", "pad92", "pad93", "pad94", "pad95", "pad96", "pad97", "pad98", "pad99">>
FillerTokens == <<"item01", "item02", "item03", "item04", "item05", "item06", "item07", "item08", "item09", "item10", "item11", "item12", "item13", "item14", "item15", "item16", "item17", "item18", "item19", "item20", "item21", "item22", "item23", "item24", "item25", "item26", "item27", "item28", "item29", "item30">>

\* rates.items(): the keys in the order of the template
AllKeys == CoreKeys \o PadKeys
OrderedKeys(rates) == SelectSeq(AllKeys, LAMBDA k : k \in DOMAIN rates)

Has(r, f) == f \in DOMAIN r
SetField(r, f, v) == [g \in DOMAIN r \cup {f} |-> IF g = f THEN v ELSE r[g]]
\* str(r.get("kind") or "")
KindOf(r) == IF Has(r, "kind") THEN r.kind ELSE ""
\* str(r.get("title") or "")
TitleOf(r) == IF Has(r, "title") THEN r.title ELSE <<>>
FaOf(r) == IF Has(r, "fa") THEN r.fa ELSE <<>>

\* the loop of build_title_index from the i-th key on
RECURSIVE TitleIndexFrom(_, _, _, _, _)
TitleIndexFrom(keys, i, rates, kind, idx) ==
    IF i > Len(keys) THEN idx
    ELSE LET key == keys[i]
             r == rates[key]
         IN IF KindOf(r) # kind \/ TitleOf(r) = <<>>
            THEN TitleIndexFrom(keys, i + 1, rates, kind, idx)
            ELSE TitleIndexFrom(keys, i + 1, rates, kind,
                                DictSet(idx, norm_key(TitleOf(r)), key))

\* title normalized -> key
build_title_index(rates, kind) ==
    TitleIndexFrom(OrderedKeys(rates), 1, rates, kind, <<>>)

RECURSIVE FaIndexFrom(_, _, _, _)
FaIndexFrom(keys, i, rates, idx) ==
    IF i > Len(keys) THEN idx
    ELSE LET key == keys[i]
             r == rates[key]
         IN IF KindOf(r) # "currency" \/ FaOf(r) = <<>>
            THEN FaIndexFrom(keys, i + 1, rates, idx)
            ELSE FaIndexFrom(keys, i + 1, rates, DictSet(idx, norm_key(FaOf(r)), key))

\* line 340
currency_fa_idx(rates) == FaIndexFrom(OrderedKeys(rates), 1, rates, <<>>)

\* idx.get(nk), "" for None
IdxGet(idx, nk) == IF DictHas(idx, nk) THEN DictGet(idx, nk) ELSE ""
\* a or b on keys
OrKey(a, b) == IF a # "" THEN a ELSE b

\* lines 346-354: the key a scraped name is written to, "" when it is skipped
ResolveBonbast(rates, titleIdx, faIdx, name) ==
    LET static == OrKey(COIN_NAME_TO_KEY(name), TOP_NAME_TO_KEY(name))
        nk == norm_key(name)
        key == IF static # "" THEN static
               ELSE OrKey(IdxGet(titleIdx, nk), IdxGet(faIdx, nk))
    IN IF key = "" \/ key \notin DOMAIN rates THEN "" ELSE key

RECURSIVE ApplyBonbast(_, _, _, _)
ApplyBonbast(items, rates, titleIdx, faIdx) ==
    IF items = <<>> THEN rates
    ELSE LET name == Head(items)[1]
             price == Head(items)[2]
             key == ResolveBonbast(rates, titleIdx, faIdx, name)
         IN IF key = ""
            THEN ApplyBonbast(Tail(items), rates, titleIdx, faIdx)
            ELSE ApplyBonbast(Tail(items),
                              [rates EXCEPT ![key] = SetField(@, "price", IntV(price))],
                              titleIdx, faIdx)

\* mutant: a static name whose key the template lacks gets a record
update_from_bonbast_creating(rates, items) ==
    LET upd == ApplyBonbast(items, rates, build_title_index(rates, "currency"),
                            currency_fa_idx(rates))
        new == {OrKey(COIN_NAME_TO_KEY(items[i][1]), TOP_NAME_TO_KEY(items[i][1])) :
                   i \in 1..Len(items)} \ ({""} \cup DOMAIN rates)
    IN [k \in DOMAIN upd \cup new |->
           IF k \in DOMAIN upd THEN upd[k] ELSE [price |-> IntV(0)]]

update_from_bonbast(rates, items) ==
    ApplyBonbast(items, rates, build_title_index(rates, "currency"),
                 currency_fa_idx(rates))

-----------------------------------------------------------------------------
(* fetch_crypto_csv, update_from_crypto_csv *)

\* A CSV document is [cols: the header has name, price and percent_change_24h,
\* rows: its rows], a row being [name, price, pct] with value "str" for a
\* cell float() rejects.
RECURSIVE CsvRows(_, _)
CsvRows(rows, out) ==
    IF rows = <<>> THEN out
    ELSE LET row == Head(rows) IN
         IF row.name = <<>> \/ ~IsNum(row.price) \/ ~IsNum(row.pct)
         THEN CsvRows(Tail(rows), out)
         ELSE CsvRows(Tail(rows),
                      DictSet(out, row.name,
                              <<ToFloat(row.price), Div(row.pct, FloatV(100))>>))

fetch_crypto_csv(doc) == IF ~doc.cols THEN <<>> ELSE CsvRows(doc.rows, <<>>)

\* lines 399-403
UsdLocal(rates) ==
    IF "usd" \in DOMAIN rates /\ Has(rates["usd"], "price")
       /\ Truthy(rates["usd"].price) /\ Truthy(ToFloat(rates["usd"].price))
    THEN ToFloat(rates["usd"].price)
    ELSE FloatV(1)

\* lines 421-423
SetCrypto(r, usd_price, change24h, usd_local) ==
    SetField(SetField(SetField(r, "usdPrice", ToFloat(usd_price)),
                      "change24h", ToFloat(change24h)),
             "price", Mul(ToFloat(usd_price), usd_local))

\* lines 411-419: the key a CSV name is written to, "" when it is skipped
ResolveCrypto(rates, titleIdx, name) ==
    LET key == IdxGet(titleIdx, norm_key(name))
    IN IF key = "" \/ key \notin DOMAIN rates \/ DOMAIN rates[key] = {} THEN ""
       ELSE key

RECURSIVE ApplyCrypto(_, _, _, _)
ApplyCrypto(items, rates, titleIdx, usd_local) ==
    IF items = <<>> THEN rates
    ELSE LET name == Head(items)[1]
             val == Head(items)[2]
             key == ResolveCrypto(rates, titleIdx, name)
         IN IF key = ""
            THEN ApplyCrypto(Tail(items), rates, titleIdx, usd_local)
            ELSE ApplyCrypto(Tail(items),
                             [rates EXCEPT ![key] = SetCrypto(@, val[1], val[2], usd_local)],
                             titleIdx, usd_local)

update_from_crypto_csv(rates, items) ==
    ApplyCrypto(items, rates, build_title_index(rates, "crypto"), UsdLocal(rates))

-----------------------------------------------------------------------------
(* recompute_usd_relations *)

\* lines 364-371: TRUE when the recompute is not skipped
HasUsdPrice(rates) ==
    /\ "usd" \in DOMAIN rates
    /\ DOMAIN rates["usd"] # {}
    /\ Has(rates["usd"], "price")
    /\ IsNum(rates["usd"].price)
    /\ Truthy(rates["usd"].price)

UsdPrice(rates) == ToFloat(rates["usd"].price)

\* float(r.get("price", 0.0))
PriceOrZero(r) == IF Has(r, "price") THEN ToFloat(r.price) ELSE FloatV(0)

\* mutant: the crypto branch is missing
RecomputeRecordNoCrypto(key, r, usd_price) ==
    IF KindOf(r) = "currency"
    THEN IF key = "usd" THEN SetField(r, "usdPrice", IntV(1))
         ELSE IF Has(r, "usdPrice")
              THEN SetField(r, "usdPrice", Div(PriceOrZero(r), usd_price))
              ELSE r
    ELSE r

\* mutant: every currency record gets a usdPrice
RecomputeRecordAnyCurrency(key, r, usd_price) ==
    IF KindOf(r) = "currency"
    THEN IF key = "usd" THEN SetField(r, "usdPrice", IntV(1))
         ELSE SetField(r, "usdPrice", Div(PriceOrZero(r), usd_price))
    ELSE IF KindOf(r) = "crypto"
    THEN IF Has(r, "usdPrice") /\ IsNum(r.usdPrice)
         THEN SetField(r, "price", Mul(ToFloat(r.usdPrice), usd_price))
         ELSE r
    ELSE r

\* mutant: the currency's usdPrice is multiplied, not divided
RecomputeRecordTimes(key, r, usd_price) ==
    IF KindOf(r) = "currency"
    THEN IF key = "usd" THEN SetField(r, "usdPrice", IntV(1))
         ELSE IF Has(r, "usdPrice")
              THEN SetField(r, "usdPrice", Mul(PriceOrZero(r), usd_price))
              ELSE r
    ELSE IF KindOf(r) = "crypto"
    THEN IF Has(r, "usdPrice") /\ IsNum(r.usdPrice)
         THEN SetField(r, "price", Mul(ToFloat(r.usdPrice), usd_price))
         ELSE r
    ELSE r

\* lines 373-389: one turn of the loop
RecomputeRecord(key, r, usd_price) ==
    IF KindOf(r) = "currency"
    THEN IF key = "usd" THEN SetField(r, "usdPrice", IntV(1))
         ELSE IF Has(r, "usdPrice")
              THEN SetField(r, "usdPrice", Div(PriceOrZero(r), usd_price))
              ELSE r
    ELSE IF KindOf(r) = "crypto"
    THEN IF Has(r, "usdPrice") /\ IsNum(r.usdPrice)
         THEN SetField(r, "price", Mul(ToFloat(r.usdPrice), usd_price))
         ELSE r
    ELSE r

\* lines 391-394
RecomputeGoldOunce(rates, usd_price) ==
    IF /\ "gold_ounce" \in DOMAIN rates
       /\ DOMAIN rates["gold_ounce"] # {}
       /\ Has(rates["gold_ounce"], "price")
       /\ IsNum(rates["gold_ounce"].price)
       /\ Has(rates["gold_ounce"], "usdPrice")
    THEN [rates EXCEPT !["gold_ounce"] =
             SetField(@, "usdPrice", Div(ToFloat(@.price), usd_price))]
    ELSE rates

recompute_usd_relations(rates) ==
    IF ~HasUsdPrice(rates) THEN rates
    ELSE RecomputeGoldOunce(
             [k \in DOMAIN rates |-> RecomputeRecord(k, rates[k], UsdPrice(rates))],
             UsdPrice(rates))

-----------------------------------------------------------------------------
(* validate_payload *)

MinRates == 80
_ALLOWED_KINDS == {"currency", "crypto", "gold"}

\* A value of `rates` that is no JSON object is the function with the one
\* field "#scalar".
IsDict(r) == ~Has(r, "#scalar")

\* lines 444-454: the reason one record is rejected for, "" when it passes
RecordFault(r) ==
    IF ~IsDict(r) THEN "not an object"
    ELSE IF KindOf(r) # "" /\ KindOf(r) \notin _ALLOWED_KINDS THEN "invalid kind"
    ELSE IF Has(r, "unit") /\ (~IsInt(r.unit) \/ r.unit.n < 1) THEN "invalid unit"
    ELSE IF ~Has(r, "price") \/ ~IsNum(r.price) THEN "invalid price"
    ELSE ""

\* the loop of lines 443-454 from the i-th record on
RECURSIVE FirstFault(_, _, _)
FirstFault(keys, i, rates) ==
    IF i > Len(keys) THEN [ok |-> TRUE, msg |-> "ok", key |-> ""]
    ELSE LET fault == RecordFault(rates[keys[i]]) IN
         IF fault # ""
         THEN [ok |-> FALSE, msg |-> fault, key |-> keys[i]]
         ELSE FirstFault(keys, i + 1, rates)

\* mutant: exactly MinRates records are too few
validate_payload_exclusive(rates) ==
    IF DOMAIN rates = {} THEN [ok |-> FALSE, msg |-> "rates missing/invalid", key |-> ""]
    ELSE IF Cardinality(DOMAIN rates) <= MinRates
    THEN [ok |-> FALSE, msg |-> "rates too small", key |-> ""]
    ELSE FirstFault(OrderedKeys(rates), 1, rates)

validate_payload(rates) ==
    IF DOMAIN rates = {} THEN [ok |-> FALSE, msg |-> "rates missing/invalid", key |-> ""]
    ELSE IF Cardinality(DOMAIN rates) < MinRates
    THEN [ok |-> FALSE, msg |-> "rates too small", key |-> ""]
    ELSE FirstFault(OrderedKeys(rates), 1, rates)

-----------------------------------------------------------------------------
(* The templates, pages and CSV documents the runs are checked on *)

\* how far the number of records goes below and above MinRates
SizeSlack == 1
\* the clock values time.time() may return, in ms after the template's
MaxNow == 1
\* the longest name cell, in tokens
MaxNameLen == 3

Base(kind, title) ==
    [kind |-> kind, title |-> title, unit |-> IntV(1), emoji |-> "x"]
With(r, f, v) == SetField(r, f, v)

UsdBase == With(Base("currency", <<"US", "Dollar">>), "fa", <<"FA_DOLLAR">>)
UsdRecs ==
    { UsdBase,
      With(With(UsdBase, "price", IntV(0)), "usdPrice", IntV(1)),
      With(UsdBase, "price", IntV(2)),
      With(With(UsdBase, "price", IntV(2)), "usdPrice", IntV(1)) }

EurBase ==
    With(With(Base("currency", <<"Euro">>), "fa", <<"FA_EURO">>), "price", IntV(3))
EurRecs == { EurBase, With(EurBase, "usdPrice", FloatV(7)) }

BtcBase == With(Base("crypto", <<"Bitcoin">>), "price", IntV(5))
BtcRecs ==
    { BtcBase,
      With(With(BtcBase, "usdPrice", FloatV(2)), "change24h", FloatV(0)),
      With(BtcBase, "usdPrice", StrV) }

GoldBase == With(Base("gold", GoldOunceName), "price", IntV(6))
GoldRecs == { GoldBase, With(GoldBase, "usdPrice", FloatV(3)) }

AzadiRec == With(Base("gold", <<"Azadi">>), "price", IntV(8))
HalfAzadiRec == With(Base("gold", <<"Half", "Azadi">>), "price", IntV(4))
PadRec == [kind |-> "gold", unit |-> IntV(1), price |-> IntV(1)]

\* zero or one of the records of S
Opt(S) == {<<>>} \cup {<<r>> : r \in S}

MakeRates(usdOpt, eur, btc, goldOpt, total) ==
    LET keys == {"eur", "btc", "coin_azadi", "coin_half_azadi"}
                \cup (IF usdOpt = <<>> THEN {} ELSE {"usd"})
                \cup (IF goldOpt = <<>> THEN {} ELSE {"gold_ounce"})
        pads == {PadKeys[i] : i \in 1..(total - Cardinality(keys))}
    IN [k \in keys \cup pads |->
          CASE k = "usd" -> usdOpt[1]
            [] k = "eur" -> eur
            [] k = "btc" -> btc
            [] k = "gold_ounce" -> goldOpt[1]
            [] k = "coin_azadi" -> AzadiRec
            [] k = "coin_half_azadi" -> HalfAzadiRec
            [] OTHER -> PadRec]

TemplateRates ==
    { MakeRates(u, e, b, g, t) :
        u \in Opt(UsdRecs), e \in EurRecs, b \in BtcRecs, g \in Opt(GoldRecs),
        t \in (MinRates - SizeSlack)..MinRates }

\* the JSON object in rates_v2_latest: with and without the optional and the
\* forward-compatible top-level fields
TemplateObjects ==
    { [rates |-> r] : r \in {t \in TemplateRates : "gold_ounce" \notin DOMAIN t} }
    \cup { [fetchedAtMs |-> 0, source |-> "old", rates |-> r,
            schemaVersion |-> 2, lists |-> <<"fiat", "coins">>] :
           r \in {t \in TemplateRates : "gold_ounce" \in DOMAIN t} }

Row(name, price) == [ncols |-> 4, name |-> name, price |-> price]
Row3(name, price) == [ncols |-> 3, name |-> name, price |-> price]
Fillers(n) == [i \in 1..n |-> Row(<<FillerTokens[i]>>, 10 + i)]

Pages ==
    { [ounce |-> -1, rows |-> <<>>],
      [ounce |-> -1, rows |-> <<Row(<<"US", "Dollar">>, 4)>>],
      [ounce |-> 7,
       rows |-> <<Row(<<"US", "Dollar">>, 4), Row3(<<"EURO">>, 6),
                  Row(<<"Ether">>, 9), Row(<<"HALFGLYPH", "Azadi">>, 5),
                  [ncols |-> 2, name |-> <<"Euro">>, price |-> 1],
                  Row(<<"Bitcoin">>, -1)>> \o Fillers(ScrapeMin - 5)],
      [ounce |-> 7,
       rows |-> <<Row(<<"US", "Dollar">>, 0), Row(<<"FA_DOLLAR">>, 9)>>
                \o Fillers(ScrapeMin)],
      [ounce |-> -1, rows |-> <<Row(<<"Euro">>, 6)>> \o Fillers(ScrapeMin - 1)],
      [ounce |-> -1, rows |-> <<Row(<<"Euro">>, 6)>> \o Fillers(ScrapeMin - 2)] }

TransportOutcomes == {Thrown} \cup {Fetched(p) : p \in Pages}

CsvRow(name, price, pct) == [name |-> name, price |-> price, pct |-> pct]
CsvDocs ==
    { [cols |-> FALSE, rows |-> <<CsvRow(<<"Bitcoin">>, FloatV(3), FloatV(5))>>],
      [cols |-> TRUE, rows |-> <<>>],
      [cols |-> TRUE, rows |-> <<CsvRow(<<"Bitcoin">>, FloatV(3), FloatV(5))>>],
      [cols |-> TRUE,
       rows |-> <<CsvRow(<<"bitcoin">>, Rat("float", 1, 2), FloatV(50)),
                  CsvRow(<<"Ether">>, FloatV(9), FloatV(1)),
                  CsvRow(<<"Euro">>, FloatV(9), FloatV(1)),
                  CsvRow(<<>>, FloatV(9), FloatV(1))>>],
      [cols |-> TRUE,
       rows |-> <<CsvRow(<<"Bitcoin">>, StrV, FloatV(5)),
                  CsvRow(<<"Ether">>, FloatV(0), FloatV(0))>>] }

CsvOutcomes == {[ok |-> FALSE, doc |-> [cols |-> FALSE, rows |-> <<>>]]}
               \cup {[ok |-> TRUE, doc |-> d] : d \in CsvDocs}

-----------------------------------------------------------------------------
(* main *)

EmptyRates == [k \in {} |-> PadRec]
NoPayload == [fetchedAtMs |-> 0, source |-> "", rates |-> EmptyRates]
NoFile == [exists |-> FALSE, obj |-> [rates |-> EmptyRates]]
NoVerdict == [ok |-> FALSE, msg |-> "not validated", key |-> ""]
NewSource == "bonbast + crypto csv"

\* load_template, lines 112-116
load_template(obj) ==
    [fetchedAtMs |-> IF "fetchedAtMs" \in DOMAIN obj THEN obj.fetchedAtMs ELSE 0,
     source |-> IF "source" \in DOMAIN obj THEN obj.source ELSE "",
     rates |-> obj.rates]

\* mutant: the template's other top-level keys are not merged in
OutObjNoMerge(p, original) ==
    [fetchedAtMs |-> p.fetchedAtMs, source |-> p.source, rates |-> p.rates]

\* lines 501-513: the object written, the template's other top-level keys merged in
OutObj(p, original) ==
    [f \in {"fetchedAtMs", "source", "rates"} \cup DOMAIN original |->
        CASE f = "fetchedAtMs" -> p.fetchedAtMs
          [] f = "source" -> p.source
          [] f = "rates" -> p.rates
          [] OTHER -> original[f]]

\* mutant: the verdict is not looked at
MayWriteAlways(v) == TRUE

\* line 495-496: whether main goes on to write
MayWrite(v) == v.ok

Quiet == /\ UNCHANGED <<rawName, outName, resKey>>

TypeDefaults ==
    /\ payload = NoPayload
    /\ bonbast = <<>>
    /\ crypto = <<>>
    /\ verdict = NoVerdict
    /\ exitCode = -1
    /\ written = 0
    /\ calls = <<>>
    /\ httpRes = Thrown
    /\ selRes = Thrown
    /\ rawName = <<>>
    /\ outName = <<>>
    /\ resKey = ""

Init ==
    /\ pc = "start"
    /\ useSelenium \in BOOLEAN
    /\ artifact \in {NoFile} \cup {[exists |-> TRUE, obj |-> o] : o \in TemplateObjects}
    /\ template = artifact
    /\ TypeDefaults

\* lines 464-469
LoadTemplate ==
    /\ pc = "start"
    /\ IF ~artifact.exists
       THEN /\ pc' = "done"
            /\ exitCode' = 2
            /\ UNCHANGED payload
       ELSE /\ pc' = "http"
            /\ payload' = load_template(artifact.obj)
            /\ UNCHANGED exitCode
    /\ UNCHANGED <<useSelenium, artifact, template, bonbast, crypto, verdict,
                   written, calls, httpRes, selRes>>
    /\ Quiet

\* scrape_bonbast, lines 245-252
ScrapeHttp ==
    /\ pc = "http"
    /\ \E res \in TransportOutcomes :
         /\ httpRes' = res
         /\ calls' = Append(calls, "http")
         /\ IF HttpSuffices(res)
            THEN /\ bonbast' = scrape_bonbast_fast(res)
                 /\ pc' = "scraped"
            ELSE /\ UNCHANGED bonbast
                 /\ pc' = "fallback"
    /\ UNCHANGED <<useSelenium, artifact, template, payload, crypto, verdict,
                   exitCode, written, selRes>>
    /\ Quiet

\* scrape_bonbast, lines 254-262
ScrapeFallback ==
    /\ pc = "fallback"
    /\ \/ /\ ~useSelenium
          /\ bonbast' = FallbackResult(useSelenium, Thrown)
          /\ UNCHANGED <<selRes, calls>>
       \/ /\ useSelenium
          /\ \E res \in TransportOutcomes :
               /\ selRes' = res
               /\ calls' = Append(calls, "selenium")
               /\ bonbast' = FallbackResult(useSelenium, res)
    /\ pc' = "scraped"
    /\ UNCHANGED <<useSelenium, artifact, template, payload, crypto, verdict,
                   exitCode, written, httpRes>>
    /\ Quiet

\* lines 471-475
UpdateBonbast ==
    /\ pc = "scraped"
    /\ payload' = IF bonbast # <<>>
                  THEN [payload EXCEPT !.rates = update_from_bonbast(@, bonbast)]
                  ELSE payload
    /\ calls' = <<>>
    /\ httpRes' = Thrown
    /\ selRes' = Thrown
    /\ pc' = "csv"
    /\ UNCHANGED <<useSelenium, artifact, template, bonbast, crypto, verdict,
                   exitCode, written>>
    /\ Quiet

\* lines 477-486
UpdateCrypto ==
    /\ pc = "csv"
    /\ \E res \in CsvOutcomes :
         LET got == IF res.ok THEN fetch_crypto_csv(res.doc) ELSE <<>> IN
         /\ crypto' = got
         /\ payload' = IF got # <<>>
                       THEN [payload EXCEPT !.rates = update_from_crypto_csv(@, got)]
                       ELSE payload
    /\ pc' = "recompute"
    /\ UNCHANGED <<useSelenium, artifact, template, bonbast, verdict, exitCode,
                   written, calls, httpRes, selRes>>
    /\ Quiet

\* line 489
Recompute ==
    /\ pc = "recompute"
    /\ payload' = [payload EXCEPT !.rates = recompute_usd_relations(@)]
    /\ pc' = "stamp"
    /\ UNCHANGED <<useSelenium, artifact, template, bonbast, crypto, verdict,
                   exitCode, written, calls, httpRes, selRes>>
    /\ Quiet

\* lines 492-495
Validate ==
    /\ pc = "stamp"
    /\ \E now \in 1..MaxNow :
         payload' = [payload EXCEPT !.fetchedAtMs = load_template(template.obj).fetchedAtMs + now,
                                    !.source = NewSource]
    /\ verdict' = validate_payload(payload.rates)
    /\ pc' = "validated"
    /\ UNCHANGED <<useSelenium, artifact, template, bonbast, crypto, exitCode,
                   written, calls, httpRes, selRes>>
    /\ Quiet

\* lines 496-498
Reject ==
    /\ pc = "validated"
    /\ ~MayWrite(verdict)
    /\ exitCode' = 3
    /\ pc' = "done"
    /\ UNCHANGED <<useSelenium, artifact, template, payload, bonbast, crypto,
                   verdict, written, calls, httpRes, selRes>>
    /\ Quiet

\* lines 500-519
Write ==
    /\ pc = "validated"
    /\ MayWrite(verdict)
    /\ artifact' = [exists |-> TRUE, obj |-> OutObj(payload, artifact.obj)]
    /\ written' = written + 1
    /\ exitCode' = 0
    /\ pc' = "done"
    /\ UNCHANGED <<useSelenium, template, payload, bonbast, crypto, verdict,
                   calls, httpRes, selRes>>
    /\ Quiet

Next ==
    \/ LoadTemplate
    \/ ScrapeHttp
    \/ ScrapeFallback
    \/ UpdateBonbast
    \/ UpdateCrypto
    \/ Recompute
    \/ Validate
    \/ Reject
    \/ Write

Spec == Init /\ [][Next]_vars

-----------------------------------------------------------------------------
(* What the claims speak of *)

Loaded == template.exists /\ pc # "start"
\* update_from_bonbast and update_from_crypto_csv are behind
Updated == template.exists /\ pc \in {"recompute", "stamp", "validated", "done"}
\* recompute_usd_relations is behind as well
Recomputed == template.exists /\ pc \in {"stamp", "validated", "done"}
TRates == template.obj.rates
PRates == payload.rates
DerivedFields == {"price", "usdPrice", "change24h"}

\* the scraped items written to `key`, in order (titles never change, so the
\* indices of the template are those of the run)
ScrapedFor(key) ==
    LET titleIdx == build_title_index(TRates, "currency")
        faIdx == currency_fa_idx(TRates)
    IN SelectSeq(bonbast,
                 LAMBDA it : ResolveBonbast(TRates, titleIdx, faIdx, it[1]) = key)
\* the CSV entries written to `key`, in order
CsvFor(key) ==
    LET titleIdx == build_title_index(TRates, "crypto")
    IN SelectSeq(crypto, LAMBDA it : ResolveCrypto(TRates, titleIdx, it[1]) = key)
LastOf(seq) == seq[Len(seq)]

\* the latest USD price: the last one scraped for the USD record, else the
\* template's; <<>> when it is absent, not a number or zero
LatestUsdOpt ==
    IF "usd" \notin DOMAIN TRates THEN <<>>
    ELSE LET scraped == ScrapedFor("usd") IN
         IF scraped # <<>>
         THEN IF LastOf(scraped)[2] # 0 THEN <<FloatV(LastOf(scraped)[2])>> ELSE <<>>
         ELSE IF Has(TRates["usd"], "price") /\ IsNum(TRates["usd"].price)
                 /\ TRates["usd"].price.n # 0
              THEN <<ToFloat(TRates["usd"].price)>>
              ELSE <<>>
UsdScraped == "usd" \in DOMAIN TRates /\ ScrapedFor("usd") # <<>>

\* C1: the keys of `rates` are those of the template at every point of the
\* run, and in the artifact written: no key is created, no record deleted.
C1_KeysPreserved ==
    Loaded => /\ DOMAIN PRates = DOMAIN TRates
              /\ DOMAIN artifact.obj.rates = DOMAIN TRates

C1_Witness ==
    /\ pc = "done" /\ exitCode = 0
    /\ "gold_ounce" \notin DOMAIN TRates
    /\ DictHas(bonbast, GoldOunceName)
    /\ DictHas(bonbast, <<"Ether">>)
    /\ DictHas(crypto, <<"Ether">>)

\* C2: the artifact is written only once validate_payload has returned ok for
\* the payload written; after a failed validation the run ends with exit code
\* 3 and the artifact is the template, never opened for writing.
C2_WriteOnlyAfterValidation ==
    /\ pc # "done" => artifact = template /\ written = 0
    /\ written > 0 =>
         /\ verdict.ok /\ verdict = validate_payload(PRates)
         /\ exitCode = 0 /\ written = 1
         /\ artifact.obj.rates = PRates
    /\ (pc \in {"validated", "done"} /\ template.exists /\ ~verdict.ok) =>
         /\ artifact = template /\ written = 0
         /\ pc = "done" => exitCode = 3

C2_Witness ==
    /\ pc = "done" /\ exitCode = 3
    /\ Cardinality(DOMAIN PRates) >= MinRates
    /\ PRates # TRates

\* C3: once recompute_usd_relations is behind, with the latest USD price L a
\* nonzero number, every crypto record with a numeric usdPrice has that
\* usdPrice equal to the latest one U (the CSV's if the record was resolved
\* from the CSV, else the template's) and price = U * L.
C3_CryptoPrice ==
    Recomputed =>
        LET L == LatestUsdOpt IN
        L # <<>> =>
            \A k \in DOMAIN PRates :
                (KindOf(PRates[k]) = "crypto" /\ Has(PRates[k], "usdPrice")
                 /\ IsNum(PRates[k].usdPrice)) =>
                    LET csv == CsvFor(k)
                        U == IF csv # <<>> THEN LastOf(csv)[2][1]
                             ELSE ToFloat(TRates[k].usdPrice)
                    IN /\ NumEq(PRates[k].usdPrice, U)
                       /\ Has(PRates[k], "price")
                       /\ NumEq(PRates[k].price, Mul(U, L[1]))

C3_Witness ==
    /\ pc = "done" /\ exitCode = 0
    /\ UsdScraped /\ LatestUsdOpt # <<>>
    /\ CsvFor("btc") # <<>>
    /\ Has(TRates["usd"], "price")
    /\ TRates["usd"].price # IntV(LastOf(ScrapedFor("usd"))[2])
    /\ PRates["btc"].price = Mul(LastOf(CsvFor("btc"))[2][1], LatestUsdOpt[1])

\* C4 (as claimed): when the USD price is absent or zero throughout the run,
\* every crypto record ends with the price of the template.
UsdMissingThroughout ==
    /\ ~("usd" \in DOMAIN TRates /\ Has(TRates["usd"], "price")
         /\ Truthy(TRates["usd"].price))
    /\ ~HasUsdPrice(PRates)
C4_KeepPreviousPrice ==
    (Recomputed /\ UsdMissingThroughout) =>
        \A k \in DOMAIN PRates :
            KindOf(PRates[k]) = "crypto" =>
                /\ Has(PRates[k], "price") = Has(TRates[k], "price")
                /\ Has(PRates[k], "price") => PRates[k].price = TRates[k].price

\* C5 (as claimed): a record has a usdPrice only if the template's has.
C5_NoUsdPriceAdded ==
    Loaded => \A k \in DOMAIN PRates :
                 Has(PRates[k], "usdPrice") => Has(TRates[k], "usdPrice")

\* C5 (amended): a record that lacked usdPrice has one only if it is the USD
\* currency record and the recompute ran on a nonzero USD price, or it is a
\* crypto record resolved from the CSV.
C5_UsdPriceAddedOnlyTo ==
    Loaded => \A k \in DOMAIN PRates :
                 (Has(PRates[k], "usdPrice") /\ ~Has(TRates[k], "usdPrice")) =>
                     \/ /\ k = "usd" /\ KindOf(TRates[k]) = "currency"
                        /\ Recomputed /\ HasUsdPrice(PRates)
                        /\ PRates[k].usdPrice = IntV(1)
                     \/ /\ KindOf(TRates[k]) = "crypto" /\ CsvFor(k) # <<>>
                        /\ Updated

C5_Witness ==
    /\ pc = "done" /\ HasUsdPrice(PRates)
    /\ ~Has(TRates["eur"], "usdPrice") /\ ~Has(PRates["eur"], "usdPrice")
    /\ "gold_ounce" \in DOMAIN TRates
    /\ ~Has(TRates["gold_ounce"], "usdPrice") /\ ~Has(PRates["gold_ounce"], "usdPrice")
    /\ ~Has(TRates["btc"], "usdPrice") /\ Has(PRates["btc"], "usdPrice")
    /\ ~Has(TRates["usd"], "usdPrice") /\ Has(PRates["usd"], "usdPrice")

\* C6: once recompute_usd_relations has run on a nonzero USD price L, the USD
\* currency record has usdPrice 1, every other currency record with a
\* usdPrice has usdPrice = price / L, and a currency record whose template
\* has no usdPrice has none.
C6_UsdAnchor ==
    (Recomputed /\ HasUsdPrice(PRates)) =>
        \A k \in DOMAIN PRates :
            KindOf(PRates[k]) = "currency" =>
                IF k = "usd" THEN Has(PRates[k], "usdPrice") /\ PRates[k].usdPrice = IntV(1)
                ELSE /\ Has(PRates[k], "usdPrice") = Has(TRates[k], "usdPrice")
                     /\ Has(PRates[k], "usdPrice") =>
                          NumEq(PRates[k].usdPrice,
                                Div(PriceOrZero(PRates[k]), UsdPrice(PRates)))

C6_Witness ==
    /\ pc = "done"
    /\ HasUsdPrice(PRates) /\ UsdScraped
    /\ ScrapedFor("eur") # <<>>
    /\ Has(PRates["eur"], "usdPrice")
    /\ PRates["eur"].usdPrice = Rat("float", 3, 2)
    /\ ~Has(TRates["usd"], "usdPrice")

\* C9: every field of a record but price, usdPrice and change24h is, at every
\* point of the run and in the artifact written, what the template has, and
\* so is every top-level field but fetchedAtMs, source and rates.
C9_Frame ==
    Loaded =>
        /\ \A k \in DOMAIN TRates :
              /\ k \in DOMAIN PRates
              /\ \/ PRates[k] = TRates[k]
                 \/ /\ DOMAIN PRates[k] \ DerivedFields = DOMAIN TRates[k] \ DerivedFields
                    /\ \A f \in DOMAIN TRates[k] \ DerivedFields :
                          PRates[k][f] = TRates[k][f]
        /\ (pc = "done" /\ exitCode = 0) =>
              /\ artifact.obj.rates = PRates
              /\ \A f \in DOMAIN template.obj \ {"fetchedAtMs", "source", "rates"} :
                    f \in DOMAIN artifact.obj /\ artifact.obj[f] = template.obj[f]

C9_Witness ==
    /\ pc = "done" /\ exitCode = 0
    /\ "schemaVersion" \in DOMAIN template.obj
    /\ artifact.obj.fetchedAtMs # template.obj.fetchedAtMs
    /\ ScrapedFor("eur") # <<>> /\ CsvFor("btc") # <<>>
    /\ PRates["eur"].price # TRates["eur"].price

\* C10: the Selenium transport is invoked only after the HTTP transport threw
\* or yielded fewer than 15 items, and only when the fallback is enabled; 15
\* or more HTTP items are returned without it; when HTTP fails or
\* under-yields and the fallback throws or is disabled the result is empty,
\* and main then keeps the prices of the template.
HttpUnder == ~httpRes.ok \/ Len(parse_bonbast_html(httpRes.page)) < ScrapeMin
C10_FallbackProtocol ==
    /\ pc \in {"fallback", "scraped"} =>
         /\ calls \in {<<"http">>, <<"http", "selenium">>}
         /\ calls = <<"http", "selenium">> => useSelenium /\ HttpUnder /\ pc = "scraped"
         /\ pc = "fallback" => HttpUnder
    /\ pc = "scraped" =>
         /\ ~HttpUnder => /\ calls = <<"http">>
                          /\ bonbast = parse_bonbast_html(httpRes.page)
         /\ (HttpUnder /\ (~useSelenium \/ ~selRes.ok)) => bonbast = <<>>
         /\ (HttpUnder /\ useSelenium /\ selRes.ok) =>
               bonbast = parse_bonbast_html(selRes.page)
    /\ (pc = "csv" /\ bonbast = <<>>) => PRates = TRates

C10_Witness ==
    /\ pc = "scraped"
    /\ calls = <<"http", "selenium">>
    /\ httpRes.ok /\ Len(parse_bonbast_html(httpRes.page)) = ScrapeMin - 1
    /\ ~selRes.ok
    /\ bonbast = <<>>

-----------------------------------------------------------------------------
(* parse_bonbast_html and update_from_bonbast on one table row *)

RowTokens == {"Azadi", "HALFGLYPH", "Half", "Emami", "Gerami", "Quarter",
              "QUARTERGLYPH", "Gram", "Coin", "Bahar"}
RowNames == UNION {[1..n -> RowTokens] : n \in 1..MaxNameLen}

DefaultRates ==
    MakeRates(<<With(UsdBase, "price", IntV(2))>>, EurBase, BtcBase,
              <<GoldBase>>, MinRates)

InitParse ==
    /\ pc = "row"
    /\ useSelenium = TRUE
    /\ artifact = [exists |-> TRUE, obj |-> [rates |-> DefaultRates]]
    /\ template = artifact
    /\ payload = load_template(artifact.obj)
    /\ bonbast = <<>>
    /\ crypto = <<>>
    /\ verdict = NoVerdict
    /\ exitCode = -1
    /\ written = 0
    /\ calls = <<>>
    /\ httpRes = Thrown
    /\ selRes = Thrown
    /\ rawName \in RowNames
    /\ outName = <<>>
    /\ resKey = ""

\* lines 161-190 on a page whose one table has the one row
ParseRow ==
    /\ pc = "row"
    /\ \E ncols \in {3, 4} :
         LET out == parse_bonbast_html(
                        [ounce |-> -1,
                         rows |-> <<[ncols |-> ncols, name |-> rawName, price |-> 9]>>])
         IN /\ bonbast' = out
            /\ outName' = out[1][1]
    /\ pc' = "parsed"
    /\ UNCHANGED <<useSelenium, artifact, template, payload, crypto, verdict,
                   exitCode, written, calls, httpRes, selRes, rawName, resKey>>

\* lines 335-359
ResolveRow ==
    /\ pc = "parsed"
    /\ resKey' = ResolveBonbast(payload.rates,
                                build_title_index(payload.rates, "currency"),
                                currency_fa_idx(payload.rates), outName)
    /\ payload' = [payload EXCEPT !.rates = update_from_bonbast(@, bonbast)]
    /\ pc' = "resolved"
    /\ UNCHANGED <<useSelenium, artifact, template, bonbast, crypto, verdict,
                   exitCode, written, calls, httpRes, selRes, rawName, outName>>

NextParse == ParseRow \/ ResolveRow

SpecParse == InitParse /\ [][NextParse]_vars

HalfGlyphAzadi == Contains(rawName, "Azadi") /\ Contains(rawName, "HALFGLYPH")

\* C7 (as claimed): a name without Emami that contains Azadi and the half
\* glyph is stored under the half-coin alias and resolves to coin_half_azadi.
C7_HalfGlyphIsHalfCoin ==
    (pc \in {"parsed", "resolved"} /\ HalfGlyphAzadi /\ ~Contains(rawName, "Emami")) =>
        /\ outName = HalfAzadiName
        /\ pc = "resolved" => resKey = "coin_half_azadi"

\* C7 (amended): a name that contains Azadi and the half glyph is never
\* stored under the base alias nor written to coin_azadi; it is stored under
\* the half-coin alias, and written to coin_half_azadi, exactly when it has
\* no Emami and either contains Half or is the alias itself.
C7_HalfGlyphNeverBase ==
    (pc \in {"parsed", "resolved"} /\ HalfGlyphAzadi) =>
        /\ outName # AzadiName
        /\ outName = HalfAzadiName <=>
              (~Contains(rawName, "Emami")
               /\ (Contains(rawName, "Half") \/ rawName = HalfAzadiName))
        /\ pc = "resolved" =>
              /\ resKey # "coin_azadi"
              /\ PRates["coin_azadi"] = TRates["coin_azadi"]
              /\ resKey = "coin_half_azadi" <=> outName = HalfAzadiName

C7_Witness ==
    /\ pc = "resolved"
    /\ HalfGlyphAzadi /\ Contains(rawName, "Half") /\ rawName # HalfAzadiName
    /\ resKey = "coin_half_azadi"
    /\ PRates["coin_half_azadi"].price = IntV(9)

-----------------------------------------------------------------------------
(* validate_payload on its own *)

ValidBase == [kind |-> "currency", unit |-> IntV(1), price |-> IntV(3)]
RecordShapes ==
    { ValidBase,
      [unit |-> IntV(1), price |-> IntV(3)],
      [kind |-> "", unit |-> IntV(1), price |-> IntV(3)],
      [kind |-> "stock", unit |-> IntV(1), price |-> IntV(3)],
      [kind |-> "crypto", price |-> FloatV(3)],
      [kind |-> "gold", unit |-> IntV(0), price |-> IntV(3)],
      [kind |-> "gold", unit |-> FloatV(2), price |-> IntV(3)],
      [kind |-> "gold", unit |-> StrV, price |-> IntV(3)],
      [kind |-> "currency", unit |-> IntV(2)],
      [kind |-> "currency", unit |-> IntV(2), price |-> StrV],
      [kind |-> "stock", unit |-> IntV(0)],
      [kind |-> "currency", unit |-> IntV(1), price |-> IntV(0)],
      [f \in {"#scalar"} |-> IntV(5)] }

\* `n` records, the first two of the shapes given
SizedRates(n, s1, s2) ==
    [k \in {AllKeys[i] : i \in 1..n} |->
        IF k = AllKeys[1] THEN s1 ELSE IF k = AllKeys[2] THEN s2 ELSE PadRec]

ValidateRates ==
    { SizedRates(n, s1, s2) :
        n \in {0, 2} \cup ((MinRates - SizeSlack)..(MinRates + SizeSlack)),
        s1 \in RecordShapes, s2 \in RecordShapes }

InitValidate ==
    /\ pc = "v_start"
    /\ useSelenium = TRUE
    /\ \E r \in ValidateRates :
         /\ artifact = [exists |-> TRUE, obj |-> [rates |-> r]]
         /\ payload = load_template([rates |-> r])
    /\ template = artifact
    /\ bonbast = <<>>
    /\ crypto = <<>>
    /\ verdict = NoVerdict
    /\ exitCode = -1
    /\ written = 0
    /\ calls = <<>>
    /\ httpRes = Thrown
    /\ selRes = Thrown
    /\ rawName = <<>>
    /\ outName = <<>>
    /\ resKey = ""

ValidateOnly ==
    /\ pc = "v_start"
    /\ verdict' = validate_payload(payload.rates)
    /\ pc' = "v_done"
    /\ UNCHANGED <<useSelenium, artifact, template, payload, bonbast, crypto,
                   exitCode, written, calls, httpRes, selRes>>
    /\ Quiet

NextValidate == ValidateOnly

SpecValidate == InitValidate /\ [][NextValidate]_vars

\* the checks of a record in the words of the claim
KindPresentAndForeign(r) == Has(r, "kind") /\ r.kind \notin {"currency", "crypto", "gold"}
UnitNotPositiveInt(r) == ~(Has(r, "unit") /\ r.unit.tag = "int" /\ r.unit.n >= 1)
PriceNotNumeric(r) == ~(Has(r, "price") /\ r.price.tag \in {"int", "float"})
ClaimedValid(r) ==
    IsDict(r) /\ ~KindPresentAndForeign(r) /\ ~UnitNotPositiveInt(r) /\ ~PriceNotNumeric(r)

\* C8 (as claimed): a payload is accepted exactly when it has at least 80
\* records, each with a kind that is absent or allowed, a unit that is a
\* positive integer and a numeric price.
C8_AcceptsIffClaimed ==
    pc = "v_done" =>
        (verdict.ok <=> /\ Cardinality(DOMAIN PRates) >= 80
                        /\ \A k \in DOMAIN PRates : ClaimedValid(PRates[k]))

\* the checks as amended: an empty kind counts as absent, an absent unit as 1
KindForeign(r) == Has(r, "kind") /\ r.kind # "" /\ r.kind \notin {"currency", "crypto", "gold"}
UnitBad(r) == Has(r, "unit") /\ ~(r.unit.tag = "int" /\ r.unit.n >= 1)
AmendedValid(r) == IsDict(r) /\ ~KindForeign(r) /\ ~UnitBad(r) /\ ~PriceNotNumeric(r)
FirstCheckFailed(r) ==
    IF ~IsDict(r) THEN "not an object"
    ELSE IF KindForeign(r) THEN "invalid kind"
    ELSE IF UnitBad(r) THEN "invalid unit"
    ELSE "invalid price"

\* C8 (amended): a payload is accepted exactly when it has at least 80
\* records, each an object with a kind that is absent, empty or allowed, a
\* unit that is absent or a positive integer, and a numeric price; 79 records
\* are rejected and 80 valid ones accepted; a rejection names the first check
\* violated, of the first record violating one.
C8_AcceptsIffAmended ==
    pc = "v_done" =>
        LET n == Cardinality(DOMAIN PRates)
            keys == OrderedKeys(PRates)
            bad == {i \in 1..Len(keys) : ~AmendedValid(PRates[keys[i]])}
        IN /\ verdict.ok <=> (n >= 80 /\ bad = {})
           /\ n = 0 => verdict.msg = "rates missing/invalid"
           /\ (n > 0 /\ n < 80) => verdict.msg = "rates too small"
           /\ (n >= 80 /\ bad # {}) =>
                 LET first == CHOOSE i \in bad : \A j \in bad : i <= j IN
                 /\ verdict.key = keys[first]
                 /\ verdict.msg = FirstCheckFailed(PRates[keys[first]])

C8_Witness ==
    /\ pc = "v_done"
    /\ Cardinality(DOMAIN PRates) = 80
    /\ verdict.ok
    /\ ~Has(PRates["usd"], "unit")
    /\ Has(PRates["eur"], "kind") /\ PRates["eur"].kind = ""

====
